---------------------------- MODULE Spec2Model ----------------------------
(***************************************************************************)
(* A model of EdgeRunner (src/src/main.rs): the odds conversions, the      *)
(* single-bet Kelly computation with its input handlers, and the exact     *)
(* multi-outcome Kelly allocator kelly_multi_exact.                        *)
(*                                                                         *)
(* Numbers.  The program computes in f64.  The model computes in decimal   *)
(* floating point with 8 significant digits: a finite number is a pair     *)
(* <<m, e>> that stands for m * 10^e, with m = 0 (and e = 0) or            *)
(* 10^7 <= |m| < 10^8.  Every arithmetic operation rounds its exact result *)
(* to the nearest such number, as every f64 operation rounds to the        *)
(* nearest f64.  The non-finite values of the model are NaN and -infinity   *)
(* (f64::NAN, f64::NEG_INFINITY); +infinity, which only a typed text such  *)
(* as "inf" produces, is not modelled.                                     *)
(***************************************************************************)
EXTENDS Integers, Sequences, FiniteSets, TLC

---------------------------------------------------------------------------
(* f64 arithmetic *)

Zero == <<0, 0>>
NaN == <<0, 1>>
NegInf == <<0, -1>>

IsFinite(x) == x[1] # 0 \/ x[2] = 0
IsNaN(x) == x = NaN

Ten4 == 100 * 100
Ten7 == 1000 * Ten4
Ten8 == Ten4 * Ten4

RECURSIVE Pow10(_)
Pow10(k) == IF k <= 0 THEN 1 ELSE 10 * Pow10(k - 1)

Abs(n) == IF n < 0 THEN -n ELSE n
Sgn(n) == IF n < 0 THEN -1 ELSE IF n = 0 THEN 0 ELSE 1

\* the number of decimal digits of n, 0 < n < 2^31
NumDigits(n) ==
  IF n < Ten4
    THEN (IF n < 10 THEN 1 ELSE IF n < 100 THEN 2 ELSE IF n < 1000 THEN 3 ELSE 4)
    ELSE IF n < Ten8
      THEN (IF n < 10 * Ten4 THEN 5 ELSE IF n < 100 * Ten4 THEN 6
            ELSE IF n < Ten7 THEN 7 ELSE 8)
      ELSE (IF n < 10 * Ten8 THEN 9 ELSE 10)

\* the quotient q with remainder r of a division by k, rounded to the nearest
\* integer, ties to even
RoundQR(q, r, k) ==
  IF 2 * r > k \/ (2 * r = k /\ q % 2 = 1) THEN q + 1 ELSE q
\* n / k rounded to the nearest integer, ties to even (n >= 0, k > 0)
RoundDiv(n, k) == RoundQR(n \div k, n % k, k)

\* s * q * 10^e for a rounded significand q <= 10^8
NormRounded(s, q, e) ==
  IF q = Ten8 THEN <<s * Ten7, e + 1>> ELSE <<s * q, e>>
\* s * n * 10^e rounded to 8 significant digits, n of dg digits
NormDigits(s, n, e, dg) ==
  IF dg <= 8
    THEN <<s * n * Pow10(8 - dg), e - (8 - dg)>>
    ELSE NormRounded(s, RoundDiv(n, Pow10(dg - 8)), e + (dg - 8))
\* s * n * 10^e rounded to 8 significant digits (s = 1 or -1, 0 <= n < 2^31)
Norm(s, n, e) == IF n = 0 THEN Zero ELSE NormDigits(s, n, e, NumDigits(n))
\* n * 10^e rounded to 8 significant digits (|n| < 2^31)
NormSigned(n, e) == Norm(IF n < 0 THEN -1 ELSE 1, Abs(n), e)

\* the integer n, and the decimal literal n * 10^-k
FromInt(n) == NormSigned(n, 0)
Dec(n, k) == NormSigned(n, -k)

One == FromInt(1)

FNeg(x) == IF IsFinite(x) THEN <<-x[1], x[2]>> ELSE NaN

\* big + small for nonzero finite numbers, big of the larger exponent
AddAligned(big, small) ==
  IF big[2] - small[2] > 9 THEN big
  ELSE NormSigned(big[1] * 10
                  + Sgn(small[1])
                    * ((Abs(small[1]) * 10) \div Pow10(big[2] - small[2])),
                  big[2] - 1)

\* x + y
FAdd(x, y) ==
  IF IsNaN(x) \/ IsNaN(y) THEN NaN
  ELSE IF x = NegInf \/ y = NegInf THEN NegInf
  ELSE IF x[1] = 0 THEN y
  ELSE IF y[1] = 0 THEN x
  ELSE IF x[2] >= y[2] THEN AddAligned(x, y)
  ELSE AddAligned(y, x)

FSub(x, y) == FAdd(x, FNeg(y))

\* the product of two 8-digit significands, from its leading part hi and its
\* next four digits lo
MulNorm(hi, lo, s, e) ==
  IF hi >= Ten7
    THEN Norm(s, hi * 10 + (lo \div 1000), e + 7)
    ELSE Norm(s, hi * 100 + (lo \div 100), e + 6)
MulHiLo(h, t, s, e) == MulNorm(h + (t \div Ten4), t % Ten4, s, e)
\* (a1 * 10^4 + a0) * (b1 * 10^4 + b0), in pieces that fit 32 bits
MulSplit(a1, a0, b1, b0, s, e) ==
  MulHiLo(a1 * b1, a1 * b0 + a0 * b1 + ((a0 * b0) \div Ten4), s, e)

\* x * y
FMul(x, y) ==
  IF ~IsFinite(x) \/ ~IsFinite(y) THEN NaN
  ELSE IF x[1] = 0 \/ y[1] = 0 THEN Zero
  ELSE MulSplit(Abs(x[1]) \div Ten4, Abs(x[1]) % Ten4,
                Abs(y[1]) \div Ten4, Abs(y[1]) % Ten4,
                Sgn(x[1]) * Sgn(y[1]), x[2] + y[2])

\* k more digits of the quotient of r by b (r < b), after the digits acc
RECURSIVE DivDigits(_, _, _, _)
DivDigits(r, b, k, acc) ==
  IF k = 0 THEN acc
  ELSE DivDigits((r * 10) % b, b, k - 1, acc * 10 + ((r * 10) \div b))

\* the quotient of two 8-digit significands
DivAbs(a, b, s, e) ==
  IF a >= b
    THEN Norm(s, DivDigits(a % b, b, 8, a \div b), e - 8)
    ELSE Norm(s, DivDigits(a, b, 9, 0), e - 9)

\* x / y (the program never divides by zero: the quotient is then NaN)
FDiv(x, y) ==
  IF ~IsFinite(x) \/ ~IsFinite(y) \/ y[1] = 0 THEN NaN
  ELSE IF x[1] = 0 THEN Zero
  ELSE DivAbs(Abs(x[1]), Abs(y[1]), Sgn(x[1]) * Sgn(y[1]), x[2] - y[2])

\* -1, 0 or 1 as x < y, x = y or x > y (x and y finite)
Cmp(x, y) ==
  IF x[1] = 0 THEN -Sgn(y[1])
  ELSE IF y[1] = 0 THEN Sgn(x[1])
  ELSE IF Sgn(x[1]) # Sgn(y[1]) THEN Sgn(x[1])
  ELSE IF x[2] # y[2] THEN Sgn(x[1]) * (IF x[2] > y[2] THEN 1 ELSE -1)
  ELSE Sgn(x[1] - y[1])

\* x < y, x <= y, x > y, x >= y: false when either is NaN
FLt(x, y) ==
  IF IsNaN(x) \/ IsNaN(y) THEN FALSE
  ELSE IF y = NegInf THEN FALSE
  ELSE IF x = NegInf THEN TRUE
  ELSE Cmp(x, y) < 0
FLe(x, y) ==
  IF IsNaN(x) \/ IsNaN(y) THEN FALSE
  ELSE IF x = NegInf THEN TRUE
  ELSE IF y = NegInf THEN FALSE
  ELSE Cmp(x, y) <= 0
FGt(x, y) == FLt(y, x)
FGe(x, y) == FLe(y, x)

FMax(x, y) == IF FLt(x, y) THEN y ELSE x
FMin(x, y) == IF FLt(y, x) THEN y ELSE x
\* f64::clamp(lo, hi)
FClamp(x, lo, hi) == IF FLt(x, lo) THEN lo ELSE IF FGt(x, hi) THEN hi ELSE x

\* ln x for finite x > 0 (f64::ln), by ln x = 2 atanh((x-1)/(x+1)) after
\* scaling x into [0.75, 1.5] by powers of 10 and 2
Ln2 == Dec(69314718, 8)
Ln10 == Dec(23025851, 7)
Half == Dec(5, 1)
Two == FromInt(2)

\* 2 (y + y^3/3 + ... + y^13/13), z = y^2
AtanhSeries(y, z) ==
  FMul(FMul(Two, y),
       FAdd(One, FMul(z,
       FAdd(Dec(33333333, 8), FMul(z,
       FAdd(Dec(2, 1), FMul(z,
       FAdd(Dec(14285714, 8), FMul(z,
       FAdd(Dec(11111111, 8), FMul(z,
       FAdd(Dec(90909091, 9), FMul(z,
       Dec(76923077, 9))))))))))))))
AtanhOf(y) == AtanhSeries(y, FMul(y, y))
Atanh2(x) == AtanhOf(FDiv(FSub(x, One), FAdd(x, One)))

RECURSIVE LnRed(_, _)
LnRed(x, k) ==
  IF FGt(x, Dec(15, 1)) THEN LnRed(FMul(x, Half), k + 1)
  ELSE IF FLt(x, Dec(75, 2)) THEN LnRed(FMul(x, Two), k - 1)
  ELSE FAdd(Atanh2(x), FMul(FromInt(k), Ln2))

FLn(x) ==
  IF FGe(x, FromInt(10)) \/ FLt(x, Dec(1, 1))
    THEN FAdd(LnRed(<<x[1], -7>>, 0), FMul(FromInt(x[2] + 7), Ln10))
    ELSE LnRed(x, 0)

\* the sum of a sequence of numbers, left to right from 0.0 (Iterator::sum)
RECURSIVE SumFrom(_, _, _)
SumFrom(v, i, acc) ==
  IF i > Len(v) THEN acc ELSE SumFrom(v, i + 1, FAdd(acc, v[i]))
FSum(v) == SumFrom(v, 1, Zero)

\* v sorted in descending order (sort_by(|a, b| b.partial_cmp(a)))
RECURSIVE InsertDesc(_, _)
InsertDesc(x, u) ==
  IF u = <<>> THEN <<x>>
  ELSE IF FGe(Head(u), x) THEN <<Head(u)>> \o InsertDesc(x, Tail(u))
  ELSE <<x>> \o u
RECURSIVE SortDesc(_)
SortDesc(v) == IF v = <<>> THEN <<>> ELSE InsertDesc(Head(v), SortDesc(Tail(v)))

\* f64::abs
FAbs(x) == IF FLt(x, Zero) THEN FNeg(x) ELSE x

\* the integer floor(x) of a finite x of magnitude below 2^31 (x.floor() as i64)
FloorInt(x) ==
  IF x[2] >= 0 THEN x[1] * Pow10(x[2])
  ELSE IF x[2] < -8 THEN (IF x[1] < 0 THEN -1 ELSE 0)
  ELSE IF x[1] >= 0 THEN x[1] \div Pow10(-x[2])
  ELSE -((Pow10(-x[2]) - 1 - x[1]) \div Pow10(-x[2]))

\* q with remainder r of a division by k, rounded half away from zero
RoundAwayQR(q, r, k) == IF 2 * r >= k THEN q + 1 ELSE q
\* the integer nearest to a finite x of magnitude below 2^31, ties away from
\* zero (x.round() as i64)
RoundInt(x) ==
  IF x[2] >= 0 THEN x[1] * Pow10(x[2])
  ELSE IF x[2] < -8 THEN 0
  ELSE Sgn(x[1]) * RoundAwayQR(Abs(x[1]) \div Pow10(-x[2]),
                               Abs(x[1]) % Pow10(-x[2]), Pow10(-x[2]))

\* the integer nearest to x * 1000 for a finite x, ties to even (the digits
\* that {:.3} prints)
Thousandths(x) ==
  IF x[2] + 3 >= 0 THEN x[1] * Pow10(x[2] + 3)
  ELSE IF x[2] + 3 < -8 THEN 0
  ELSE Sgn(x[1]) * RoundDiv(Abs(x[1]), Pow10(-(x[2] + 3)))

---------------------------------------------------------------------------
(* Texts.  A text is a record: k is its shape, "blank" (empty after trim),  *)
(* "int" (digits with an optional sign: a is the integer, plus tells an     *)
(* explicit '+', comma tells thousands separators), "dec" (a decimal        *)
(* literal a * 10^-b with b fractional digits), "frac" (a/b), "nan"         *)
(* ("NaN"), "neginf" ("-inf"), "dash" (the placeholder) and "junk" (any     *)
(* other text, such as "abc").                                              *)

Text(k, a, b, plus, comma) ==
  [k |-> k, a |-> a, b |-> b, plus |-> plus, comma |-> comma]
Blank == Text("blank", 0, 0, FALSE, FALSE)
Junk == Text("junk", 0, 0, FALSE, FALSE)
Dash == Text("dash", 0, 0, FALSE, FALSE)
NaNText == Text("nan", 0, 0, FALSE, FALSE)
NegInfText == Text("neginf", 0, 0, FALSE, FALSE)
IntText(n) == Text("int", n, 0, FALSE, FALSE)
PlusText(n) == Text("int", n, 0, TRUE, FALSE)
CommaText(n) == Text("int", n, 0, FALSE, TRUE)
DecText(a, b) == Text("dec", a, b, FALSE, FALSE)
FracText(a, b) == Text("frac", a, b, FALSE, FALSE)

\* an Option<f64>: <<>> is None, <<x>> is Some(x)
None == <<>>
Some(x) == <<x>>

\* str::parse::<f64>() of a trimmed text
ParseF64(t) ==
  CASE t.k = "int" /\ ~t.comma -> Some(FromInt(t.a))
    [] t.k = "dec" -> Some(Dec(t.a, t.b))
    [] t.k = "nan" -> Some(NaN)
    [] t.k = "neginf" -> Some(NegInf)
    [] OTHER -> None

\* str::parse::<i64>() of a text, commas removed or not
ParseI64(t, commas_removed) ==
  IF t.k = "int" /\ (commas_removed \/ ~t.comma) THEN <<t.a>> ELSE <<>>

\* the decimal odds of the American odds n
AmericanOdds(n) ==
  IF n > 0 THEN FAdd(One, FDiv(FromInt(n), FromInt(100)))
  ELSE IF n = 0 THEN NegInf
  ELSE FAdd(One, FDiv(FromInt(100), FNeg(FromInt(n))))

parse_american(t) ==
  IF ParseI64(t, TRUE) = <<>> THEN None
  ELSE Some(AmericanOdds(ParseI64(t, TRUE)[1]))

parse_fractional(t) ==
  IF t.k # "frac" \/ t.b <= 0 THEN None
  ELSE Some(FAdd(One, FDiv(FromInt(t.a), FromInt(t.b))))

\* the decimal reading of parse_any: a number greater than 1
DecimalReading(r) == IF r # <<>> /\ FGt(r[1], One) THEN r ELSE None

parse_anyAmericanFirst(t) ==
  IF parse_american(t) # None THEN parse_american(t)
  ELSE IF DecimalReading(ParseF64(t)) # None THEN DecimalReading(ParseF64(t))
  ELSE parse_fractional(t)
parse_any(t) ==
  IF DecimalReading(ParseF64(t)) # None THEN DecimalReading(ParseF64(t))
  ELSE IF parse_american(t) # None THEN parse_american(t)
  ELSE parse_fractional(t)

format_decimalTrunc(x) ==
  IF IsNaN(x) THEN NaNText
  ELSE IF x = NegInf THEN NegInfText
  ELSE DecText(FloorInt(x), 0)
format_decimal(x) ==
  IF IsNaN(x) THEN NaNText
  ELSE IF x = NegInf THEN NegInfText
  ELSE DecText(Thousandths(x), 3)

format_american(x) ==
  IF IsNaN(x) THEN IntText(0)
  ELSE IF FLe(x, One) THEN Dash
  ELSE IF FGe(x, Two)
    THEN PlusText(RoundInt(FMul(FSub(x, One), FromInt(100))))
    ELSE IntText(-RoundInt(FDiv(FromInt(100), FSub(x, One))))

\* the continued-fraction loop of approx_fraction: x and a0 its floor, the
\* convergents h0/k0 and h1/k1, and the iteration count.  The next terms are
\* computed only when a0 <= max_den: the denominator k0 + a0*k1 exceeds
\* max_den otherwise, and the loop breaks before using them.
RECURSIVE ApproxLoop(_, _, _, _, _, _, _, _, _)
ApproxNext(x, a0, h0, k0, h1, k1, n, max_den, max_iter) ==
  IF a0 > max_den \/ k0 + a0 * k1 > max_den THEN <<h1, k1>>
  ELSE ApproxLoop(x, a0, h1, k1, h0 + a0 * h1, k0 + a0 * k1, n + 1,
                  max_den, max_iter)
ApproxInvert(x, h0, k0, h1, k1, n, max_den, max_iter) ==
  ApproxNext(x, FloorInt(x), h0, k0, h1, k1, n, max_den, max_iter)
ApproxFrac(frac, h0, k0, h1, k1, n, max_den, max_iter) ==
  IF FLt(FAbs(frac), Dec(1, 9)) THEN <<h1, k1>>
  ELSE ApproxInvert(FDiv(One, frac), h0, k0, h1, k1, n, max_den, max_iter)
ApproxLoop(x, a0, h0, k0, h1, k1, n, max_den, max_iter) ==
  IF n >= max_iter THEN <<h1, k1>>
  ELSE ApproxFrac(FSub(x, FromInt(a0)), h0, k0, h1, k1, n, max_den, max_iter)

approx_fraction(x, max_den, max_iter) ==
  ApproxLoop(x, FloorInt(x), 1, 0, FloorInt(x), 1, 0, max_den, max_iter)

\* the text num/den of a pair
FractionText(hk) == FracText(hk[1], hk[2])

format_fractional(x) ==
  IF IsNaN(x) THEN FractionText(approx_fraction(Zero, 1000, 100))
  ELSE IF FLe(x, One) THEN Dash
  ELSE FractionText(approx_fraction(FSub(x, One), 1000, 100))

complement_decimalInverse(x) ==
  IF IsNaN(x) \/ FLe(x, One) THEN NaN ELSE FDiv(FSub(x, One), x)
complement_decimal(x) ==
  IF IsNaN(x) \/ FLe(x, One) THEN NaN ELSE FDiv(x, FSub(x, One))

---------------------------------------------------------------------------
(* State *)

\* the single-bet state of app (use_state)
VARIABLES market_prob, your_prob, bet_side, odds_format, odds_input, bankroll
\* history: after a toggle of the bet side at odds above 1, from an odds text
\* that is blank or accepted in the format, the odds in use, your probability
\* and the bet side before the toggle; None after any other step
VARIABLE toggled
\* history: after a second toggle in a row, what toggled held before it (the
\* state before the two toggles); None after any other step
VARIABLE twice
\* history: after a change of the odds format from an odds text accepted in the
\* old format, the odds that text stood for in the old format; None after any
\* other step
VARIABLE reformatted
\* the multi-outcome state of app: the rows <<mkt, yours>> of outcomes
VARIABLE outcomes
\* a conversion under test: the odds odds_d, the stage conv reached (with the
\* format, if any), the text formatted and the value computed
VARIABLES odds_d, conv, conv_text, conv_out
\* one call of kelly_multi_exact: its arguments, its position pc, its locals
\* and its result
VARIABLES p, d, cap, pc, f, best_f, best_obj, step, iter, cand, result
\* history: <<f, best_f, best_obj, step>> as the last iteration of the loop
\* found them, <<>> before the first iteration
VARIABLE prev

svars ==
  <<market_prob, your_prob, bet_side, odds_format, odds_input, bankroll,
    toggled, twice, reformatted>>
uvars == <<svars, outcomes>>
ovars == <<odds_d, conv, conv_text, conv_out>>
kvars ==
  <<p, d, cap, pc, f, best_f, best_obj, step, iter, cand, result, prev>>
vars == <<uvars, ovars, kvars>>

\* the state of app after construction
AppInit ==
  /\ market_prob = FromInt(60)
  /\ your_prob = FromInt(55)
  /\ bet_side = "OnEvent"
  /\ odds_format = "Decimal"
  /\ odds_input = Blank
  /\ bankroll = IntText(1000)
  /\ toggled = None
  /\ twice = None
  /\ reformatted = None
  /\ outcomes = <<<<FromInt(50), FromInt(60)>>, <<FromInt(50), FromInt(40)>>>>

\* no conversion under test
NoConversion ==
  /\ odds_d = Two
  /\ conv = <<"none", "">>
  /\ conv_text = Blank
  /\ conv_out = None

\* no call of kelly_multi_exact
NoCall ==
  /\ p = <<>>
  /\ d = <<>>
  /\ cap = One
  /\ pc = "none"
  /\ f = <<>>
  /\ best_f = <<>>
  /\ best_obj = Zero
  /\ step = Zero
  /\ iter = 0
  /\ cand = <<>>
  /\ result = <<>>
  /\ prev = <<>>

---------------------------------------------------------------------------
(* The single bet: decimal_odds, the computation, the handlers *)

Hundred == FromInt(100)
Quarter == Dec(25, 2)

\* Option::unwrap_or
UnwrapOr(r, x) == IF r = None THEN x ELSE r[1]

\* bankroll.trim().replace(',', "").parse::<f64>().unwrap_or(0.0)
bankroll_val == UnwrapOr(ParseF64([bankroll EXCEPT !.comma = FALSE]), Zero)

\* the text t parsed in the format fmt
ParseIn(fmt, t) ==
  CASE fmt = "Decimal" -> ParseF64(t)
    [] fmt = "American" -> parse_american(t)
    [] fmt = "Fractional" -> parse_fractional(t)

\* the bounds 1e-9 and 1 - 1e-9 of the market price.  An 8-digit number
\* cannot tell 1 - 1e-9 from 1; the model takes 1e-7, the least bound whose
\* 1/(1 - bound) exceeds 1, as 1/(1 - 1e-9) does in f64.
PriceMin == Dec(1, 7)
PriceMax == FSub(One, PriceMin)

pm == FClamp(FDiv(market_prob, Hundred), PriceMin, PriceMax)
pricedEventOnly == pm
priced == IF bet_side = "OnEvent" THEN pm ELSE FSub(One, pm)

\* the market price as odds: the explicit odds, else 1/priced
decimal_odds ==
  IF ParseIn(odds_format, odds_input) # None
    THEN ParseIn(odds_format, odds_input)[1]
    ELSE FDiv(One, priced)

\* f.clamp(0.0, 1.0)
ClampUpper(x) == FMin(x, One)
ClampFraction(x) == FClamp(x, Zero, One)

\* (kelly_f, full_bet, half_bet, quarter_bet, ev_per_unit, implied_prob,
\* edge_prob)
Outputs(fk, full, half, quarter, ev, imp, edgep) ==
  [kelly_f |-> fk, full_bet |-> full, half_bet |-> half,
   quarter_bet |-> quarter, ev_per_unit |-> ev, implied_prob |-> imp,
   edge_prob |-> edgep]

NoBetZeroEV == Outputs(Zero, Zero, Zero, Zero, Zero, NaN, NaN)
NoBet == Outputs(Zero, Zero, Zero, Zero, NaN, NaN, NaN)

StakesThirds(fk, bank, ev, imp, edgep) ==
  Outputs(fk, FMul(bank, fk), FMul(bank, FMul(fk, Dec(33, 2))),
          FMul(bank, FMul(fk, Quarter)), ev, imp, edgep)
Stakes(fk, bank, ev, imp, edgep) ==
  Outputs(fk, FMul(bank, fk), FMul(bank, FMul(fk, Half)),
          FMul(bank, FMul(fk, Quarter)), ev, imp, edgep)

\* the computation at odds dd > 1 with b = dd - 1, probability pp, q = 1 - pp
BetAt(dd, b, pp, q) ==
  Stakes(ClampFraction(FDiv(FSub(FMul(b, pp), q), b)), bankroll_val,
         FSub(FMul(pp, b), q), FDiv(One, dd), FSub(pp, FDiv(One, dd)))
BetOf(dd, pp) == BetAt(dd, FSub(dd, One), pp, FSub(One, pp))

single_bet_at(dd) ==
  IF FLe(dd, One) THEN NoBet ELSE BetOf(dd, FDiv(your_prob, Hundred))
single_bet == single_bet_at(decimal_odds)

\* target.value().parse::<f64>().unwrap_or(0.0).clamp(0.0, 100.0)
PercentOfRaw(t) == UnwrapOr(ParseF64(t), Zero)
PercentOf(t) == FClamp(UnwrapOr(ParseF64(t), Zero), Zero, Hundred)

\* the values of the percentage fields (type="number": a number or blank),
\* of the slider (a number of [0, 100]), and the texts typed as odds and as
\* bankroll
MarketTexts == {IntText(60), IntText(150), Blank}
SliderTexts == {IntText(0)}
YourTexts == {IntText(55), IntText(60), DecText(66666667, 6), IntText(-5)}
OddsTexts ==
  {Blank, Junk, NaNText, IntText(0), IntText(2), DecText(5, 1), DecText(15, 1),
   DecText(25, 1), PlusText(150), IntText(-150), FracText(3, 2)}
BankrollTexts == {IntText(1000), CommaText(1000), Junk}
Formats == {"Decimal", "American", "Fractional"}

\* the largest odds the handlers are made to read from the odds text
MaxOddsRead == 100000
Readable(t) ==
  IF parse_any(t) = None THEN TRUE
  ELSE ~FGt(parse_any(t)[1], FromInt(MaxOddsRead))

on_market_prob_input(t) ==
  /\ market_prob' = PercentOf(t)
  /\ UNCHANGED <<your_prob, bet_side, odds_format, odds_input, bankroll>>
  /\ toggled' = None
  /\ twice' = None
  /\ reformatted' = None
  /\ UNCHANGED <<outcomes, ovars, kvars>>

on_market_prob_slider(t) ==
  /\ market_prob' = PercentOf(t)
  /\ UNCHANGED <<your_prob, bet_side, odds_format, odds_input, bankroll>>
  /\ toggled' = None
  /\ twice' = None
  /\ reformatted' = None
  /\ UNCHANGED <<outcomes, ovars, kvars>>

on_your_prob_input(t) ==
  /\ your_prob' = PercentOf(t)
  /\ UNCHANGED <<market_prob, bet_side, odds_format, odds_input, bankroll>>
  /\ toggled' = None
  /\ twice' = None
  /\ reformatted' = None
  /\ UNCHANGED <<outcomes, ovars, kvars>>

\* the text x formatted in the format fmt
FormatIn(fmt, x) ==
  CASE fmt = "Decimal" -> format_decimal(x)
    [] fmt = "American" -> format_american(x)
    [] fmt = "Fractional" -> format_fractional(x)

\* the select raises change only when its selection changes
on_odds_format_change(new_format) ==
  /\ new_format # odds_format
  /\ Readable(odds_input)
  /\ odds_input' = IF parse_any(odds_input) # None
                     THEN FormatIn(new_format, parse_any(odds_input)[1])
                     ELSE odds_input
  /\ odds_format' = new_format
  /\ UNCHANGED <<market_prob, your_prob, bet_side, bankroll>>
  /\ toggled' = None
  /\ twice' = None
  /\ reformatted' = ParseIn(odds_format, odds_input)
  /\ UNCHANGED <<outcomes, ovars, kvars>>

on_odds_input(t) ==
  /\ odds_input' = t
  /\ UNCHANGED <<market_prob, your_prob, bet_side, odds_format, bankroll>>
  /\ toggled' = None
  /\ twice' = None
  /\ reformatted' = None
  /\ UNCHANGED <<outcomes, ovars, kvars>>

on_bankroll_input(t) ==
  /\ bankroll' = t
  /\ UNCHANGED <<market_prob, your_prob, bet_side, odds_format, odds_input>>
  /\ toggled' = None
  /\ twice' = None
  /\ reformatted' = None
  /\ UNCHANGED <<outcomes, ovars, kvars>>

\* the odds text is one the single-bet path accepts in the format, or blank
Accepted == odds_input = Blank \/ ParseIn(odds_format, odds_input) # None

\* the odds text flipped to the complementary side
Flipped(r) ==
  IF r # None /\ FGt(r[1], FAdd(One, Dec(1, 9)))
    THEN FormatIn(odds_format, complement_decimal(r[1]))
    ELSE odds_input

on_bet_side_change(side) ==
  /\ side # bet_side
  /\ Readable(odds_input)
  /\ odds_input' = Flipped(parse_any(odds_input))
  /\ your_prob' = FSub(Hundred, your_prob)
  /\ bet_side' = side
  /\ toggled' = IF Accepted /\ FGt(decimal_odds, One)
                  THEN <<decimal_odds, your_prob, bet_side>> ELSE None
  /\ twice' = toggled
  /\ reformatted' = None
  /\ UNCHANGED <<market_prob, odds_format, bankroll>>
  /\ UNCHANGED <<outcomes, ovars, kvars>>

UInit == AppInit /\ NoConversion /\ NoCall

UNext ==
  \/ \E t \in MarketTexts : on_market_prob_input(t)
  \/ \E t \in SliderTexts : on_market_prob_slider(t)
  \/ \E t \in YourTexts : on_your_prob_input(t)
  \/ \E fmt \in Formats : on_odds_format_change(fmt)
  \/ \E t \in OddsTexts : on_odds_input(t)
  \/ \E t \in BankrollTexts : on_bankroll_input(t)
  \/ \E side \in {"OnEvent", "OnOpposite"} : on_bet_side_change(side)

SpecUI == UInit /\ [][UNext]_vars

---------------------------------------------------------------------------
(* The independent multi-outcome allocation: multi_calc and the handlers *)

\* pm and p of a row r = <<mkt, yours>>
MultiPm(r) == FClamp(FDiv(r[1], Hundred), PriceMin, PriceMax)
MultiP(r) == FClamp(FDiv(r[2], Hundred), Zero, One)
\* f of a row, from b, p and q
MultiKellyAt(b, pp, q) ==
  FClamp(FDiv(FSub(FMul(b, pp), q), b), Zero, One)
MultiKellyOf(dd, pp) == MultiKellyAt(FSub(dd, One), pp, FSub(One, pp))
MultiKelly(r) == MultiKellyOf(FDiv(One, MultiPm(r)), MultiP(r))

\* the Kelly fractions of the rows from row i on
RECURSIVE MultiFractions(_, _)
MultiFractions(rows, i) ==
  IF i > Len(rows) THEN <<>>
  ELSE <<MultiKelly(rows[i])>> \o MultiFractions(rows, i + 1)

multi_fractions == MultiFractions(outcomes, 1)
multi_sumk == FSum(multi_fractions)
multi_scaleNone == One
multi_scale == IF FGt(multi_sumk, One) THEN FDiv(One, multi_sumk) ELSE One

\* rec = f * multi_scale, from row i on
RECURSIVE MultiRec(_, _, _)
MultiRec(fs, scale, i) ==
  IF i > Len(fs) THEN <<>>
  ELSE <<FMul(fs[i], scale)>> \o MultiRec(fs, scale, i + 1)
multi_rec == MultiRec(multi_fractions, multi_scale, 1)

\* the rows of the list are at most MaxOutcomes; the values typed in the
\* percentage fields of a row
MaxOutcomes == 3
RowMktTexts == {Blank, IntText(20), IntText(50)}
RowYoursTexts == {IntText(40), IntText(60), IntText(75), IntText(90)}

on_add_outcome ==
  /\ Len(outcomes) < MaxOutcomes
  /\ outcomes' = Append(outcomes, <<Zero, Zero>>)
  /\ UNCHANGED <<svars, ovars, kvars>>

on_mkt(i, t) ==
  /\ outcomes' = [outcomes EXCEPT ![i] = <<PercentOf(t), outcomes[i][2]>>]
  /\ UNCHANGED <<svars, ovars, kvars>>

on_yours(i, t) ==
  /\ outcomes' = [outcomes EXCEPT ![i] = <<outcomes[i][1], PercentOf(t)>>]
  /\ UNCHANGED <<svars, ovars, kvars>>

\* v.remove(i)
RECURSIVE RemoveAt(_, _, _)
RemoveAt(rows, i, j) ==
  IF j > Len(rows) THEN <<>>
  ELSE IF j = i THEN RemoveAt(rows, i, j + 1)
  ELSE <<rows[j]>> \o RemoveAt(rows, i, j + 1)

on_remove(i) ==
  /\ outcomes' = RemoveAt(outcomes, i, 1)
  /\ UNCHANGED <<svars, ovars, kvars>>

MNext ==
  \/ on_add_outcome
  \/ \E i \in 1..Len(outcomes) : \E t \in RowMktTexts : on_mkt(i, t)
  \/ \E i \in 1..Len(outcomes) : \E t \in RowYoursTexts : on_yours(i, t)
  \/ \E i \in 1..Len(outcomes) : on_remove(i)

SpecMulti == UInit /\ [][MNext]_vars

---------------------------------------------------------------------------
(* The conversions of odds, one at a time *)

\* the odds converted: hundredths from 1.01 up, whole odds, and odds close
\* to 1 and large
MaxCents == 400
MaxWhole == 60
OddsGrid ==
  {Dec(n, 2) : n \in 101..MaxCents} \cup {FromInt(n) : n \in 5..MaxWhole}
    \cup {Dec(10001, 4), Dec(10005, 4), Dec(13333333, 7), FromInt(250),
          FromInt(1000)}

OInit ==
  /\ odds_d \in OddsGrid
  /\ conv = <<"input", "">>
  /\ conv_text = Blank
  /\ conv_out = None
  /\ AppInit
  /\ NoCall

Complement ==
  /\ conv = <<"input", "">>
  /\ conv_out' = Some(complement_decimal(odds_d))
  /\ conv' = <<"complement", "">>
  /\ UNCHANGED <<odds_d, conv_text, uvars, kvars>>

ComplementAgain ==
  /\ conv = <<"complement", "">>
  /\ conv_out' = Some(complement_decimal(conv_out[1]))
  /\ conv' = <<"complement2", "">>
  /\ UNCHANGED <<odds_d, conv_text, uvars, kvars>>

Format(fmt) ==
  /\ conv = <<"input", "">>
  /\ conv_text' = FormatIn(fmt, odds_d)
  /\ conv' = <<"formatted", fmt>>
  /\ UNCHANGED <<odds_d, conv_out, uvars, kvars>>

Parse(fmt) ==
  /\ conv = <<"formatted", fmt>>
  /\ conv_out' = ParseIn(fmt, conv_text)
  /\ conv' = <<"parsed", fmt>>
  /\ UNCHANGED <<odds_d, conv_text, uvars, kvars>>

ONext ==
  \/ Complement
  \/ ComplementAgain
  \/ \E fmt \in Formats : Format(fmt)
  \/ \E fmt \in Formats : Parse(fmt)

SpecOdds == OInit /\ [][ONext]_vars

---------------------------------------------------------------------------
(* The parsers, one text at a time *)

\* the texts parsed: integers plain, signed and with thousands separators,
\* decimal literals, fractions, and texts that are no numbers
ParseInts == {-1500, -300, -150, -110, -100, -1, 0, 1, 2, 100, 150, 250, 1500}
ParseTexts ==
  {IntText(n) : n \in ParseInts} \cup {PlusText(n) : n \in ParseInts \cap 0..1500}
    \cup {CommaText(1500), CommaText(-1500)}
    \cup {DecText(5, 1), DecText(10, 1), DecText(15, 1), DecText(25, 1),
          DecText(1505, 1), DecText(-25, 1)}
    \cup {FracText(3, 2), FracText(11, 10), FracText(0, 1), FracText(1, 0),
          FracText(5, -2)}
    \cup {Blank, Junk, Dash, NaNText, NegInfText}

PInit ==
  /\ conv_text \in ParseTexts
  /\ conv = <<"text", "">>
  /\ odds_d = Two
  /\ conv_out = None
  /\ AppInit
  /\ NoCall

\* the text parsed in the format fmt, as decimal_odds parses the odds text
ParseText(fmt) ==
  /\ conv = <<"text", "">>
  /\ conv_out' = ParseIn(fmt, conv_text)
  /\ conv' = <<"read", fmt>>
  /\ UNCHANGED <<odds_d, conv_text, uvars, kvars>>

\* the text parsed by parse_any
ParseAny ==
  /\ conv = <<"text", "">>
  /\ conv_out' = parse_any(conv_text)
  /\ conv' = <<"read", "any">>
  /\ UNCHANGED <<odds_d, conv_text, uvars, kvars>>

PNext ==
  \/ \E fmt \in Formats : ParseText(fmt)
  \/ ParseAny

SpecParse == PInit /\ [][PNext]_vars

---------------------------------------------------------------------------
(* kelly_multi_exact(p, d, cap) *)

\* the loop's iteration budget: for _iter in 0..300
MaxIter == 300
\* the thresholds and factors of the source
WMin == Dec(1, 12)
InvMax == Norm(1, 1, 12)
ObjTol == Dec(1, 9)
StepMinTiny == Dec(1, 9)
StepMin == Dec(1, 6)
StepInit == Dec(25, 2)
StepGrowDouble == Two
StepGrow == Dec(105, 2)

\* the shape check: no outcome, or mismatched lengths
EmptyResultLax == Len(p) = 0 \/ Len(d) < Len(p)
EmptyResult == Len(p) = 0 \/ Len(d) # Len(p)

\* the independent Kelly fraction at net odds b and probability pi
KellyFracNoLoss(b, pi) ==
  IF FGt(b, Zero) THEN FClamp(FDiv(FMul(b, pi), b), Zero, One) ELSE Zero
KellyFracAnyOdds(b, pi) ==
  FClamp(FDiv(FSub(FMul(b, pi), FSub(One, pi)), b), Zero, One)
KellyFrac(b, pi) ==
  IF FGt(b, Zero)
    THEN FClamp(FDiv(FSub(FMul(b, pi), FSub(One, pi)), b), Zero, One)
    ELSE Zero

\* the independent Kelly fractions of legs i, i+1, ...
RECURSIVE InitKelly(_)
InitKelly(i) ==
  IF i > Len(p) THEN <<>>
  ELSE <<KellyFrac(FSub(d[i], One), p[i])>> \o InitKelly(i + 1)

\* v[i], v[i+1], ... multiplied by scale
RECURSIVE ScaleFrom(_, _, _)
ScaleFrom(v, scale, i) ==
  IF i > Len(v) THEN <<>>
  ELSE <<FMul(v[i], scale)>> \o ScaleFrom(v, scale, i + 1)

\* the starting point: the independent Kelly fractions, scaled to the cap
ScaleToCap(f0, sumk) ==
  IF FGt(sumk, cap) /\ FGt(sumk, Zero)
    THEN ScaleFrom(f0, FDiv(cap, sumk), 1)
    ELSE f0
InitFrom(f0) == ScaleToCap(f0, FSum(f0))
InitPoint == InitFrom(InitKelly(1))

\* the wealth multiplier of outcome i at v, given the sum of v
Wealth(v, fsum, i) == FAdd(FSub(One, fsum), FMul(d[i], v[i]))

\* the rest of the objective's sum from outcome i on, wi the wealth multiplier
\* of outcome i
RECURSIVE ObjFrom(_, _, _, _)
ObjAtSkip(v, fsum, i, val, wi) ==
  IF FLe(wi, WMin) THEN ObjFrom(v, fsum, i + 1, val)
  ELSE ObjFrom(v, fsum, i + 1, FAdd(val, FMul(p[i], FLn(wi))))
ObjAt(v, fsum, i, val, wi) ==
  IF FLe(wi, WMin) THEN NegInf
  ELSE ObjFrom(v, fsum, i + 1, FAdd(val, FMul(p[i], FLn(wi))))
ObjFrom(v, fsum, i, val) ==
  IF i > Len(p) THEN val ELSE ObjAt(v, fsum, i, val, Wealth(v, fsum, i))

\* the closure obj
obj(v) == ObjFrom(v, FSum(v), 1, Zero)

\* 1/wi, or 1e12 at a wealth multiplier of at most 1e-12
InvOf(wi) == IF FLe(wi, WMin) THEN InvMax ELSE FDiv(One, wi)
\* inv_w from outcome i on
RECURSIVE InvWFrom(_, _, _)
InvWFrom(v, fsum, i) ==
  IF i > Len(p) THEN <<>>
  ELSE <<InvOf(Wealth(v, fsum, i))>> \o InvWFrom(v, fsum, i + 1)
\* s_over from outcome i on
RECURSIVE SOverFrom(_, _, _)
SOverFrom(inv_w, i, acc) ==
  IF i > Len(p) THEN acc
  ELSE SOverFrom(inv_w, i + 1, FAdd(acc, FMul(p[i], inv_w[i])))
\* g from outcome k on
RECURSIVE GradFrom(_, _, _)
GradFrom(inv_w, s_over, k) ==
  IF k > Len(p) THEN <<>>
  ELSE <<FAdd(FNeg(s_over), FMul(FMul(p[k], d[k]), inv_w[k]))>>
       \o GradFrom(inv_w, s_over, k + 1)
GradOf(inv_w) == GradFrom(inv_w, SOverFrom(inv_w, 1, Zero), 1)

\* the closure grad
grad(v) == GradOf(InvWFrom(v, FSum(v), 1))

\* v with its negative entries set to 0.0, from entry i on
RECURSIVE ClipFrom(_, _)
ClipFrom(v, i) ==
  IF i > Len(v) THEN <<>>
  ELSE <<IF FLt(v[i], Zero) THEN Zero ELSE v[i]>> \o ClipFrom(v, i + 1)

\* the last j (from 0) of the sorted u whose element stays above its
\* threshold, or rho when there is none after position j
RECURSIVE RhoFrom(_, _, _, _)
RhoAt(u, j, c, rho) ==
  RhoFrom(u, j + 1, c,
          IF FGt(FSub(u[j], FDiv(FSub(c, cap), FAdd(FromInt(j - 1), One))), Zero)
            THEN j - 1 ELSE rho)
RhoFrom(u, j, cssv, rho) ==
  IF j > Len(u) THEN rho ELSE RhoAt(u, j, FAdd(cssv, u[j]), rho)

\* v with theta subtracted and negative entries set to 0.0, from entry i on
RECURSIVE ShiftFrom(_, _, _)
ShiftFrom(v, theta, i) ==
  IF i > Len(v) THEN <<>>
  ELSE <<FMax(FSub(v[i], theta), Zero)>> \o ShiftFrom(v, theta, i + 1)

\* the Euclidean projection of v on the capped simplex, u being v sorted and
\* rho the index found by the loop
ProjRho(v, u, rho) ==
  ShiftFrom(v, FDiv(FSub(FSum(SubSeq(u, 1, rho + 1)), cap), FromInt(rho + 1)), 1)
ProjRawFirst(v, u, r) == ProjRho(v, u, 0)
ProjRaw(v, u, r) == ProjRho(v, u, IF r < 0 THEN 0 ELSE r)
ProjSorted(v, u) == ProjRaw(v, u, RhoFrom(u, 1, Zero, -1))
ProjClipped(v) == IF FLe(FSum(v), cap) THEN v ELSE ProjSorted(v, SortDesc(v))

\* the closure proj
projClampOnly(v) == ClipFrom(v, 1)
proj(v) == ProjClipped(ClipFrom(v, 1))

\* the tentative point f + step * g, from entry i on
RECURSIVE Tentative(_, _)
Tentative(g, i) ==
  IF i > Len(f) THEN <<>>
  ELSE <<FAdd(f[i], FMul(step, g[i]))>> \o Tentative(g, i + 1)

\* the inputs: vectors of probabilities and of decimal odds of up to MaxLegs
\* entries (of any two lengths) with a cap, and two-outcome markets whose
\* probabilities sum to 100%, priced at 1/market, with your probabilities equal
\* to the market's and the cap 1.0
MaxLegs == 2
PVals == {Zero, Dec(5, 1), Dec(75, 2), One}
DVals == {One, FromInt(2), FromInt(4)}
CapVals == {One, Dec(5, 1)}
MktVals == {10, 20, 25, 30, 40, 50, 60, 70, 75, 80, 90}
SeqsUpTo(S, n) == UNION {[1..k -> S] : k \in 0..n}
Pct(m) == FDiv(FromInt(m), FromInt(100))

GridInput ==
  /\ p \in SeqsUpTo(PVals, MaxLegs)
  /\ d \in SeqsUpTo(DVals, MaxLegs)
  /\ cap \in CapVals

MarketInput ==
  \E m \in MktVals :
    /\ p = <<Pct(m), Pct(100 - m)>>
    /\ d = <<FDiv(One, Pct(m)), FDiv(One, Pct(100 - m))>>
    /\ cap = One

\* five legs under the cap 0.3: a leg at odds of at most 1 with four legs at
\* the odds 3, 3, 6, 6, whose independent Kelly fractions scale to the cap
DeadOdds == {One, Dec(5, 1)}
DeadLegInput ==
  \E dd \in DeadOdds, pd \in {Zero, Dec(5, 1)} :
    /\ p = <<pd, Dec(39668257, 8), Dec(39668257, 8),
             Dec(25738257, 8), Dec(25738257, 8)>>
    /\ d = <<dd, FromInt(3), FromInt(3), FromInt(6), FromInt(6)>>
    /\ cap = Dec(3, 1)

KInit ==
  /\ GridInput \/ MarketInput \/ DeadLegInput
  /\ pc = "call"
  /\ f = <<>>
  /\ best_f = <<>>
  /\ best_obj = Zero
  /\ step = Zero
  /\ iter = 0
  /\ cand = <<>>
  /\ result = <<>>
  /\ prev = <<>>
  /\ AppInit
  /\ NoConversion

\* the loop's initial state at the starting point f0
StartAt(f0) ==
  /\ f' = f0
  /\ step' = StepInit
  /\ best_f' = f0
  /\ best_obj' = obj(f0)
  /\ pc' = "loop"
  /\ UNCHANGED result

\* entry: the shape check, the starting point, and the loop's initial state
KellyCall ==
  /\ pc = "call"
  /\ IF EmptyResult
       THEN /\ result' = <<>>
            /\ pc' = "done"
            /\ UNCHANGED <<f, best_f, best_obj, step>>
       ELSE StartAt(InitPoint)
  /\ UNCHANGED <<p, d, cap, iter, cand, prev>>
  /\ UNCHANGED <<uvars, ovars>>

\* a loop that moves to the candidate even when it rejects it
DecideMoves(c, o_new) ==
  /\ cand' = c
  /\ f' = c
  /\ IF IsFinite(o_new) /\ FGt(o_new, FAdd(best_obj, ObjTol))
       THEN /\ best_obj' = o_new
            /\ best_f' = c
            /\ step' = FMin(FMul(step, StepGrow), One)
            /\ pc' = IF iter + 1 < MaxIter THEN "loop" ELSE "ret"
       ELSE /\ step' = FMul(step, Half)
            /\ pc' = IF FLt(FMul(step, Half), StepMin) \/ iter + 1 >= MaxIter
                       THEN "ret" ELSE "loop"
            /\ UNCHANGED <<best_obj, best_f>>
\* the loop's decision on the candidate c of objective o_new
Decide(c, o_new) ==
  /\ cand' = c
  /\ IF IsFinite(o_new) /\ FGt(o_new, FAdd(best_obj, ObjTol))
       THEN /\ f' = c
            /\ best_obj' = o_new
            /\ best_f' = c
            /\ step' = FMin(FMul(step, StepGrow), One)
            /\ pc' = IF iter + 1 < MaxIter THEN "loop" ELSE "ret"
       ELSE /\ step' = FMul(step, Half)
            /\ pc' = IF FLt(FMul(step, Half), StepMin) \/ iter + 1 >= MaxIter
                       THEN "ret" ELSE "loop"
            /\ UNCHANGED <<f, best_obj, best_f>>
TryCandidate(c) == Decide(c, obj(c))

\* one iteration of the loop
KellyStep ==
  /\ pc = "loop"
  /\ iter < MaxIter
  /\ TryCandidate(proj(Tentative(grad(f), 1)))
  /\ iter' = iter + 1
  /\ prev' = <<f, best_f, best_obj, step>>
  /\ UNCHANGED <<p, d, cap, result>>
  /\ UNCHANGED <<uvars, ovars>>

\* return best_f
KellyReturn ==
  /\ pc = "ret"
  /\ result' = best_f
  /\ pc' = "done"
  /\ UNCHANGED <<p, d, cap, f, best_f, best_obj, step, iter, cand, prev>>
  /\ UNCHANGED <<uvars, ovars>>

KNext == KellyCall \/ KellyStep \/ KellyReturn

SpecKelly == KInit /\ [][KNext]_vars

\* the position of the call moves: every step of KNext changes pc or iter,
\* and a step is possible exactly while pc is not "done"
Advance ==
  /\ pc # "done"
  /\ pc' \in {"loop", "ret", "done"}
  /\ iter' \in {iter, iter + 1}
  /\ pc' # pc \/ iter' # iter

\* the call runs on: the function is sequential code that nothing suspends
SpecKellyFair == SpecKelly /\ WF_<<pc, iter>>(Advance)

\* proj as a function of any vector: the vector v to project is held in f,
\* its projection in cand
MaxDim == 3
ProjVals == {Dec(-5, 1), Zero, Dec(25, 2), Dec(75, 2), Dec(15, 1)}

ProjInit ==
  /\ f \in SeqsUpTo(ProjVals, MaxDim)
  /\ cap \in CapVals
  /\ p = <<>>
  /\ d = <<>>
  /\ pc = "proj"
  /\ best_f = <<>>
  /\ best_obj = Zero
  /\ step = Zero
  /\ iter = 0
  /\ cand = <<>>
  /\ result = <<>>
  /\ prev = <<>>
  /\ AppInit
  /\ NoConversion

\* proj(&mut v)
Project ==
  /\ pc = "proj"
  /\ cand' = proj(f)
  /\ pc' = "projected"
  /\ UNCHANGED <<p, d, cap, f, best_f, best_obj, step, iter, result, prev>>
  /\ UNCHANGED <<uvars, ovars>>

SpecProj == ProjInit /\ [][Project]_vars

---------------------------------------------------------------------------
(* Properties of kelly_multi_exact *)

\* a rounding tolerance: 1e-6, the tolerance the program itself applies to
\* the total stake
Tol == Dec(1, 6)

NonNeg(v) == \A i \in 1..Len(v) : FGe(v[i], Zero)
Feasible(v) == NonNeg(v) /\ FLe(FSum(v), cap)
FeasibleTol(v) == NonNeg(v) /\ FLe(FSum(v), FAdd(cap, Tol))
Started == pc \in {"loop", "ret", "done"} /\ ~EmptyResult

ClosedFormKelly(pp, dd) ==
  FClamp(FDiv(FSub(FMul(FSub(dd, One), pp), FSub(One, pp)), FSub(dd, One)),
         Zero, One)

\* C2 as stated: with one outcome, odds d > 1 and cap 1.0 the returned
\* allocation is within 1e-4 of the closed-form single-bet Kelly fraction.
C2_SingleOutcomeClosedForm ==
  (pc = "done" /\ Len(p) = 1 /\ Len(d) = 1 /\ FGt(d[1], One) /\ cap = One)
    => /\ Len(result) = 1
       /\ FLe(FAbs(FSub(result[1], ClosedFormKelly(p[1], d[1]))), Dec(1, 4))

\* two outcomes, market probabilities summing to 100%, odds 1/market, your
\* probabilities equal to the market's, cap 1.0
NoEdge ==
  /\ Len(p) = 2 /\ Len(d) = 2
  /\ cap = One
  /\ FGt(p[1], Zero) /\ FGt(p[2], Zero)
  /\ FAdd(p[1], p[2]) = One
  /\ d[1] = FDiv(One, p[1]) /\ d[2] = FDiv(One, p[2])

\* C3 as stated: with no edge the returned allocation is all zero.
C3_NoEdgeAllZero ==
  (pc = "done" /\ NoEdge) => result = <<Zero, Zero>>

\* C3 (amended): with no edge the returned allocation is all zero up to
\* rounding: every component is in [0, 1e-6].
C3_NoEdgeZeroUpToRounding ==
  (pc = "done" /\ NoEdge)
    => /\ Len(result) = 2
       /\ \A i \in 1..2 : FGe(result[i], Zero) /\ FLe(result[i], Tol)

\* C3 witness: a call with no edge at a market other than 50/50 has returned.
C3_Witness == pc = "done" /\ NoEdge /\ p[1] # p[2] /\ iter >= 18

\* C4: an empty probability vector or vectors of different lengths give the
\* empty allocation; every other call returns one entry per outcome.
C4_Shape ==
  pc = "done" =>
    IF Len(p) = 0 \/ Len(d) # Len(p) THEN result = <<>>
    ELSE Len(result) = Len(p)

\* C4 witness: a call with more odds than probabilities has returned.
C4_Witness == pc = "done" /\ Len(p) = 1 /\ Len(d) = 2 /\ result = <<>>

\* C16: every call terminates, after at most 300 iterations of the loop, and
\* the loop is left as soon as a rejected step has brought the step size
\* below 1e-6: no iteration starts at such a step size.
C16_Terminates ==
  /\ <>(pc = "done")
  /\ [](iter <= 300)
  /\ [](pc = "loop" => FGe(step, Dec(1, 6)))

\* a call that the step size ended after eighteen or more iterations
C16_Witness ==
  /\ pc = "done"
  /\ iter >= 18
  /\ iter < 300
  /\ FLt(step, Dec(1, 6))
  /\ result = best_f

\* the candidate's objective exceeds the best objective before the iteration
\* by more than 1e-9
C17_Improves == FGt(obj(cand), FAdd(prev[3], Dec(1, 9)))

\* C17: the loop starts at step 0.25; an iteration whose candidate's
\* objective exceeds the best so far by more than 1e-9 makes the candidate
\* the current and the best point and the step min(1.05 * step, 1.0); any
\* other iteration leaves both points unchanged and halves the step.
C17_StepRule ==
  /\ (pc = "loop" /\ iter = 0) => step = Dec(25, 2)
  /\ prev # <<>> =>
       IF C17_Improves
         THEN /\ f = cand
              /\ best_f = cand
              /\ best_obj = obj(cand)
              /\ step = FMin(FMul(Dec(105, 2), prev[4]), One)
         ELSE /\ f = prev[1]
              /\ best_f = prev[2]
              /\ best_obj = prev[3]
              /\ step = FDiv(prev[4], Two)

\* an accepted iteration followed the first
C17_Witness ==
  /\ prev # <<>>
  /\ iter >= 2
  /\ C17_Improves
  /\ f = cand
  /\ f # prev[1]
  /\ FGt(step, prev[4])

\* the wealth multiplier W_i = 1 - sum(v) + d_i * v_i
C18_W(v, i) == FAdd(FSub(One, FSum(v)), FMul(d[i], v[i]))
C18_Boundary(v) == \E i \in 1..Len(v) : FLe(C18_W(v, i), Dec(1, 12))

\* C18: a candidate with some W_i <= 1e-12 has the objective minus infinity
\* and is rejected, the points unchanged and the step halved; every accepted
\* point has all W_i > 1e-12.
C18_BoundaryRejected ==
  prev # <<>> =>
    /\ C18_Boundary(cand) =>
         /\ obj(cand) = NegInf
         /\ f = prev[1]
         /\ best_f = prev[2]
         /\ best_obj = prev[3]
         /\ step = FDiv(prev[4], Two)
    /\ best_obj # prev[3] => ~C18_Boundary(f) /\ ~C18_Boundary(best_f)

\* a candidate at the boundary was rejected
C18_Witness ==
  /\ prev # <<>>
  /\ C18_Boundary(cand)
  /\ f = prev[1]
  /\ FLt(step, prev[4])

\* the legs whose decimal odds are at most 1
C19_DeadLegs == {i \in 1..Len(d) : FLe(d[i], One)}
\* the entries of v at the legs of odds at most 1 are exactly 0
C19_ZeroAt(v) == \A i \in C19_DeadLegs : v[i] = Zero
\* the entries of v at the legs of odds at most 1 are in [0, 1e-6]
C19_NearZeroAt(v) == \A i \in C19_DeadLegs : FGe(v[i], Zero) /\ FLe(v[i], Tol)
\* the starting point is exactly 0 at the legs of odds at most 1
C19_InitZero == (pc = "loop" /\ iter = 0) => C19_ZeroAt(f)

\* C19 as stated: a leg with decimal odds d[i] <= 1 has stake 0 at
\* initialization, in the current point, in every candidate after projection
\* and in the returned allocation.
C19_DeadLegZero ==
  /\ C19_InitZero
  /\ pc \in {"loop", "ret"} => C19_ZeroAt(f) /\ C19_ZeroAt(best_f)
  /\ prev # <<>> => C19_ZeroAt(cand)
  /\ (pc = "done" /\ ~EmptyResult) => C19_ZeroAt(result)

\* C19: a leg with decimal odds d[i] <= 1 (cap <= 1) has stake exactly 0 at
\* initialization, and a stake that is 0 up to rounding (in [0, 1e-6]) in
\* the current point, in every candidate after projection and in the returned
\* allocation.
C19_DeadLegZeroUpToRounding ==
  /\ C19_InitZero
  /\ pc \in {"loop", "ret"} => C19_NearZeroAt(f) /\ C19_NearZeroAt(best_f)
  /\ prev # <<>> => C19_NearZeroAt(cand)
  /\ (pc = "done" /\ ~EmptyResult) => C19_NearZeroAt(result)

\* a call with a leg at odds 0.5 returns, after an accepted step, an allocation
\* that stakes on the other legs and leaves on that leg a rounding residue
C19_Witness ==
  /\ pc = "done"
  /\ Len(d) = 5
  /\ d[1] = Dec(5, 1)
  /\ iter >= 18
  /\ result # InitPoint
  /\ FGt(result[2], Dec(5, 2))
  /\ result[1] # Zero
  /\ C19_NearZeroAt(result)

\* C21: at the start of every iteration and at return the current point f is
\* the best point best_f and best_obj is the objective of best_f; best_obj
\* never decreases, so the objective of the returned allocation is at least
\* the objective of the starting point.
C21_BestTracksCurrent ==
  /\ pc \in {"loop", "ret"} => f = best_f /\ best_obj = obj(best_f)
  /\ prev # <<>> => FGe(best_obj, prev[3])
  /\ (pc = "done" /\ ~EmptyResult) =>
       /\ result = best_f
       /\ best_obj = obj(result)
       /\ FGe(obj(result), obj(InitPoint))

\* a call that accepted a step, ended on rejected steps and returned a point
\* of a higher objective than the starting point
C21_Witness ==
  /\ pc = "done"
  /\ iter >= 3
  /\ result = best_f
  /\ cand # result
  /\ IsFinite(obj(InitPoint))
  /\ FGt(obj(result), obj(InitPoint))

---------------------------------------------------------------------------
(* Properties of the single bet *)

\* x is within the relative tolerance tol of y
RelClose(x, y, tol) ==
  IsFinite(x) /\ IsFinite(y) /\ FLe(FAbs(FSub(x, y)), FMul(tol, FAbs(y)))
\* x equals y up to rounding
Near(x, y) == x = y \/ RelClose(x, y, Tol)

InUnit(x) == FGe(x, Zero) /\ FLe(x, One)
\* your probability of the selected side, and your edge p - 1/d at the odds
\* in use
YourP == FDiv(your_prob, Hundred)
Edge == FSub(YourP, FDiv(One, decimal_odds))
\* the odds in use are a number
OddsAreNumber == ~IsNaN(decimal_odds)

\* market 60%, no explicit odds, your probability 55%: fraction 0, stake 0
C5_Example ==
  (market_prob = FromInt(60) /\ odds_input = Blank /\ bet_side = "OnEvent"
     /\ your_prob = FromInt(55))
    => single_bet.kelly_f = Zero /\ single_bet.full_bet = Zero

C6_Formulas(o, dd, b, pp, q, fk, bank) ==
  /\ o.kelly_f = fk
  /\ Near(o.full_bet, FMul(bank, fk))
  /\ Near(o.half_bet, FDiv(FMul(bank, fk), Two))
  /\ Near(o.quarter_bet, FDiv(FMul(bank, fk), FromInt(4)))
  /\ Near(o.ev_per_unit, FSub(FMul(pp, b), q))
  /\ Near(o.implied_prob, FDiv(One, dd))
  /\ Near(o.edge_prob, FSub(pp, FDiv(One, dd)))
C6_Fraction(o, dd, b, pp, q, bank) ==
  C6_Formulas(o, dd, b, pp, q,
              FMax(Zero, FMin(One, FDiv(FSub(FMul(b, pp), q), b))), bank)

\* d = 2.0, p = 60%, B = 1000: f = 0.2, full stake 200, EV 0.2
C6_Example ==
  (decimal_odds = Two /\ your_prob = FromInt(60)
     /\ bankroll_val = FromInt(1000))
    => /\ Near(single_bet.kelly_f, Dec(2, 1))
       /\ Near(single_bet.full_bet, FromInt(200))
       /\ Near(single_bet.ev_per_unit, Dec(2, 1))

\* C6: at decimal odds d > 1, with b = d - 1 and q = 1 - p, the fraction is
\* clamp((b*p - q)/b, 0, 1), the stakes are B*f, B*f/2 and B*f/4, the EV per
\* unit is p*b - q, the implied probability 1/d and the edge p - 1/d; d = 2,
\* p = 60%, B = 1000 gives f = 0.2, full stake 200 and EV 0.2.
C6_Outputs ==
  /\ FGt(decimal_odds, One) =>
       C6_Fraction(single_bet, decimal_odds, FSub(decimal_odds, One), YourP,
                   FSub(One, YourP), bankroll_val)
  /\ C6_Example

C6_Witness ==
  /\ odds_format = "Decimal"
  /\ odds_input = IntText(2)
  /\ your_prob = FromInt(60)
  /\ bankroll = IntText(1000)
  /\ single_bet.kelly_f = Dec(2, 1)
  /\ single_bet.half_bet = FromInt(100)

\* C7: whenever the decimal odds in use are <= 1 the fraction and the three
\* stakes are 0, and EV, implied probability and edge are NaN.
C7_NoBet ==
  FLe(decimal_odds, One) =>
    /\ single_bet.kelly_f = Zero
    /\ single_bet.full_bet = Zero
    /\ single_bet.half_bet = Zero
    /\ single_bet.quarter_bet = Zero
    /\ IsNaN(single_bet.ev_per_unit)
    /\ IsNaN(single_bet.implied_prob)
    /\ IsNaN(single_bet.edge_prob)

\* typed decimal odds 0.5
C7_Witness ==
  /\ odds_format = "Decimal"
  /\ odds_input = DecText(5, 1)
  /\ decimal_odds = Half
  /\ IsNaN(single_bet.edge_prob)

\* C8: a toggle of the bet side turns your probability into 100 - p and the
\* decimal odds in use into their complement d/(d-1) (up to the rounding of
\* the formatted text), at every accepted or blank odds text with odds > 1.
C8_ToggleComplements ==
  toggled # None =>
    /\ your_prob = FSub(Hundred, toggled[2])
    /\ RelClose(decimal_odds, complement_decimal(toggled[1]), Dec(1, 2))

\* marketPct/100 clamped to the price bounds
C13_MarketPrice == FMax(PriceMin, FMin(PriceMax, FDiv(market_prob, Hundred)))

\* C13: when the odds text fails to parse, the odds in use are 1/pm when the
\* event is backed and 1/(1 - pm) when the opposite side is, pm the market
\* probability clamped to the price bounds; they are a number > 1.
C13_Fallback ==
  ParseIn(odds_format, odds_input) = None =>
    /\ bet_side = "OnEvent" => decimal_odds = FDiv(One, C13_MarketPrice)
    /\ bet_side = "OnOpposite" =>
         decimal_odds = FDiv(One, FSub(One, C13_MarketPrice))
    /\ IsFinite(decimal_odds) /\ FGt(decimal_odds, One)

\* unparseable odds text at market 100% with the opposite side backed: the
\* price is the lower bound
C13_Witness ==
  /\ odds_input = Junk
  /\ market_prob = Hundred
  /\ bet_side = "OnOpposite"
  /\ decimal_odds = FDiv(One, PriceMin)

\* a percentage of [0, 100]
C22_Percent(x) == IsFinite(x) /\ FGe(x, Zero) /\ FLe(x, Hundred)

\* C22: after any sequence of UI events the stored market probability and the
\* stored your-probability are within [0, 100].
C22_ProbabilitiesInRange == C22_Percent(market_prob) /\ C22_Percent(your_prob)

\* 150 typed as market probability is stored as 100; -5 typed as your
\* probability is stored as 0 and mirrored to 100 by the toggle
C22_Witness ==
  /\ market_prob = Hundred
  /\ your_prob = Hundred
  /\ bet_side = "OnOpposite"
  /\ toggled # None

\* C23: a change of the odds format leaves the decimal odds unchanged up to
\* the rounding of the formatted text (1e-2 relative): for every odds text
\* accepted in the old format, the rewritten text parsed in the new format
\* stands for the odds the old text stood for in the old format.
C23_FormatChangeKeepsOdds ==
  reformatted # None =>
    /\ ParseIn(odds_format, odds_input) # None
    /\ RelClose(ParseIn(odds_format, odds_input)[1], reformatted[1], Dec(1, 2))
    /\ RelClose(decimal_odds, reformatted[1], Dec(1, 2))

\* C24: two toggles of the bet side in a row restore your probability, the
\* bet side and, up to the rounding of the formatted text (1e-2 relative),
\* the decimal odds, in each of the three formats.
C24_ToggleTwiceRestores ==
  twice # None =>
    /\ your_prob = twice[2]
    /\ bet_side = twice[3]
    /\ RelClose(decimal_odds, twice[1], Dec(1, 2))

---------------------------------------------------------------------------
(* Properties of the conversions *)

C10_RoundTrip ==
  conv[1] = "parsed" =>
    conv_out # None /\ RelClose(conv_out[1], odds_d, Dec(1, 2))

\* 2.5 formats as "+150", which parses as 2.5
C10_Witness ==
  /\ conv = <<"parsed", "American">>
  /\ odds_d = Dec(25, 1)
  /\ conv_text = PlusText(150)
  /\ conv_out = Some(Dec(25, 1))

---------------------------------------------------------------------------
(* Properties of the parsers *)

\* C11: parse_american gives 1 + n/100 for an integer n > 0 (with or without
\* a leading sign), 1 + 100/|n| for n < 0, and no value for n = 0 and for a
\* text that is not an integer.
C11_American ==
  conv = <<"read", "American">> =>
    IF conv_text.k # "int" \/ conv_text.a = 0 THEN conv_out = None
    ELSE IF conv_text.a > 0
      THEN conv_out = Some(FAdd(One, FDiv(FromInt(conv_text.a), Hundred)))
      ELSE conv_out = Some(FAdd(One, FDiv(Hundred, FromInt(-conv_text.a))))

\* C12: in the Decimal format a text is accepted only if it parses to a
\* number > 1; a number <= 1 gives no value, like a text that is no number.
C12_DecimalAboveOne ==
  conv = <<"read", "Decimal">> =>
    IF ParseF64(conv_text) # None /\ FGt(ParseF64(conv_text)[1], One)
      THEN conv_out = ParseF64(conv_text)
      ELSE conv_out = None

\* the first reading of t that succeeds: decimal above 1, American,
\* fractional
C14_FirstReading(t) ==
  IF ParseF64(t) # None /\ FGt(ParseF64(t)[1], One) THEN ParseF64(t)
  ELSE IF ParseIn("American", t) # None THEN ParseIn("American", t)
  ELSE IF ParseIn("Fractional", t) # None THEN ParseIn("Fractional", t)
  ELSE None

\* C14: parse_any returns the first reading that succeeds of the decimal
\* reading (accepted only above 1), the American and the fractional, and no
\* value only when all three fail.
C14_ParseAnyOrder ==
  conv = <<"read", "any">> =>
    /\ conv_out = C14_FirstReading(conv_text)
    /\ conv_out = None <=>
         /\ ~(ParseF64(conv_text) # None /\ FGt(ParseF64(conv_text)[1], One))
         /\ parse_american(conv_text) = None
         /\ parse_fractional(conv_text) = None

\* "2" is 2.0 as a decimal and 1.02 as American odds: parse_any gives 2.0
C14_Witness ==
  /\ conv = <<"read", "any">>
  /\ conv_text = IntText(2)
  /\ parse_american(conv_text) = Some(Dec(102, 2))
  /\ conv_out = Some(Two)

\* C25: every value returned by parse_any, parse_american and
\* parse_fractional is a decimal odds value strictly greater than 1; a text
\* that denotes a price <= 1 yields no value.
C25_ParsedOddsAboveOne ==
  (conv[1] = "read" /\ conv[2] \in {"any", "American", "Fractional"}
     /\ conv_out # None)
    => IsFinite(conv_out[1]) /\ FGt(conv_out[1], One)

---------------------------------------------------------------------------
(* Properties of the independent allocation *)

\* when the unscaled sum is at most the cap the scale is 1 and every
\* recommended fraction is its Kelly fraction
C15_NoScaling ==
  FLe(multi_sumk, One) => multi_scale = One /\ multi_rec = multi_fractions

\* C15 as stated: the recommended fractions sum to at most the cap 1.0, and
\* when the unscaled sum of the Kelly fractions is at most the cap the scale
\* is exactly 1 and every recommended fraction is its Kelly fraction.
C15_SumWithinCap ==
  /\ FLe(FSum(multi_rec), One)
  /\ C15_NoScaling

\* C15: the recommended fractions sum to at most the cap 1.0 up to rounding
\* (at most 1 + 1e-6), and when the unscaled sum of the Kelly fractions is
\* at most the cap the scale is exactly 1 and every recommended fraction is
\* its Kelly fraction.
C15_SumWithinCapUpToRounding ==
  /\ FLe(FSum(multi_rec), FAdd(One, Tol))
  /\ C15_NoScaling

\* three rows whose Kelly fractions sum above the cap are scaled down
C15_Witness ==
  /\ Len(outcomes) = 3
  /\ FGt(multi_sumk, One)
  /\ FLt(multi_scale, One)
  /\ FLe(FSum(multi_rec), FAdd(One, Tol))
  /\ FGt(FSum(multi_rec), Dec(99, 2))


---------------------------------------------------------------------------
(* Properties of the projection *)

\* v with its negative entries replaced by 0
C20_Clamped(v) == [i \in 1..Len(v) |-> FMax(v[i], Zero)]
\* the squared Euclidean distance of x and y
RECURSIVE C20_Dist2From(_, _, _)
C20_Dist2From(x, y, i) ==
  IF i > Len(x) THEN Zero
  ELSE FAdd(FMul(FSub(x[i], y[i]), FSub(x[i], y[i])), C20_Dist2From(x, y, i + 1))
C20_Dist2(x, y) == C20_Dist2From(x, y, 1)
\* points of the capped simplex, by quarters
C20_Quarters == {Zero, Dec(25, 2), Dec(5, 1), Dec(75, 2), One}
C20_Points(n) == {y \in [1..n -> C20_Quarters] : FLe(FSum(y), cap)}
\* x is as close to v as every point of the capped simplex, within tol
C20_Closest(x, v, tol) ==
  \A y \in C20_Points(Len(v)) : FLe(C20_Dist2(x, v), FAdd(C20_Dist2(y, v), tol))
\* x is max(v_i - theta, 0) for one threshold theta >= 0, within tol: the
\* positive entries of x are v lowered by the same theta, the zero entries
\* are those that theta lowers to 0 or below
C20_Shifted(x, v, tol) ==
  \A i \in 1..Len(v) :
    FGt(x[i], Zero) =>
      /\ FGe(FSub(v[i], x[i]), FNeg(tol))
      /\ \A j \in 1..Len(v) :
           IF FGt(x[j], Zero)
             THEN FLe(FAbs(FSub(FSub(v[i], x[i]), FSub(v[j], x[j]))), tol)
             ELSE FLe(v[j], FAdd(FSub(v[i], x[i]), tol))
C20_Over == FGt(FSum(C20_Clamped(f)), cap)

\* C20 as stated: proj maps v to the closest point of the capped simplex
\* {x >= 0, sum x <= cap}; when the sum of the non-negative parts of v is
\* <= cap the result is v with negatives clamped to 0, and otherwise it is
\* max(v_i - theta, 0) with a sum equal to cap.
C20_ProjectionExact ==
  pc = "projected" =>
    /\ Feasible(cand)
    /\ C20_Closest(cand, f, Zero)
    /\ IF C20_Over
         THEN C20_Shifted(cand, f, Zero) /\ FSum(cand) = cap
         ELSE cand = C20_Clamped(f)

\* C20: proj maps v to the closest point of the capped simplex up to
\* rounding (1e-6); when the sum of the non-negative parts of v is <= cap the
\* result is v with negatives clamped to 0, and otherwise it is
\* max(v_i - theta, 0) with a sum equal to cap up to rounding.
C20_ProjectionUpToRounding ==
  pc = "projected" =>
    /\ FeasibleTol(cand)
    /\ C20_Closest(cand, f, Tol)
    /\ IF C20_Over
         THEN /\ C20_Shifted(cand, f, Tol)
              /\ FLe(FAbs(FSub(FSum(cand), cap)), Tol)
         ELSE cand = C20_Clamped(f)

\* (0.75, -0.5, 1.5) under the cap 1: theta is 0.625, the projection is
\* (0.125, 0, 0.875)
C20_Witness ==
  /\ pc = "projected"
  /\ cap = One
  /\ f = <<Dec(75, 2), Dec(-5, 1), Dec(15, 1)>>
  /\ cand = <<Dec(125, 3), Zero, Dec(875, 3)>>

=============================================================================
